---- MODULE Spec2Model ----
(***************************************************************************)
(* Model of sync_data.py: one-way synchronisation of the tables of QUERIES *)
(* from a PostgreSQL source into a REST sink (extract to CSV, batched      *)
(* upsert, deletion of orphaned records).                                  *)
(*                                                                         *)
(* The source database and the REST sink are black boxes: a query returns  *)
(* some row sequence or fails; a request is answered 2xx, 4xx, 5xx or ends *)
(* in a transport exception.  A request that is not answered 2xx has no    *)
(* effect at the sink.                                                     *)
(***************************************************************************)
EXTENDS Integers, Sequences, FiniteSets, Bags, TLC

\* ------------------------------------------------------------------ bounds
\* user_id values 1..MaxUser, order_id values 1..MaxOrder
MaxUser == 2
MaxOrder == 2
\* longest query result
MaxRows == 3
\* posts of one batch in the re-delivery runs
MaxPosts == 3
\* rows per upsert request; 1000 in the source, scaled down with MaxRows
BATCH_SIZE == 2

\* ------------------------------------------------------------- configuration
TableNames == <<"users", "coupons", "orders">>

NTables == Len(TableNames)

\* QUERIES without the SQL text; on_conflict is the comma-separated string
\* of the source, kept as the list of the columns it names
QUERIES(t) ==
    CASE t = "users"   -> [on_conflict |-> <<"user_id">>, delete_orphans |-> TRUE,
                           key_columns |-> <<"user_id">>]
      [] t = "coupons" -> [on_conflict |-> <<"user_id">>, delete_orphans |-> TRUE,
                           key_columns |-> <<"user_id">>]
      [] t = "orders"  -> [on_conflict |-> <<"user_id", "order_id">>, delete_orphans |-> TRUE,
                           key_columns |-> <<"user_id", "order_id">>]

\* the column the model keeps besides the key columns of each query
PayloadColumn(t) ==
    CASE t = "users" -> "nickname"
      [] t = "coupons" -> "valid_coupon_count"
      [] t = "orders" -> "real_payment"

UserIds == 1..MaxUser

OrderIds == 1..MaxOrder

\* records of table t with payload p, as the source database and the sink
\* hold them: integer keys
Records(t, p) ==
    CASE t = "users"   -> [user_id : UserIds, nickname : {p}]
      [] t = "coupons" -> [user_id : UserIds, valid_coupon_count : {p}]
      [] t = "orders"  -> [user_id : UserIds, order_id : OrderIds, real_payment : {p}]

\* ---------------------------------------------------------------- conversions
Digits == <<"0", "1", "2", "3", "4", "5", "6", "7", "8", "9">>

\* str(n) of a small natural number
Str(n) == Digits[n + 1]

\* the integer a decimal string denotes (the sink's column coercion)
ParseInt(s) == CHOOSE n \in 0..9 : Digits[n + 1] = s

SeqToSet(s) == {s[i] : i \in 1..Len(s)}

\* csv.writer then csv.DictReader: every key value becomes its string
CsvRow(t, r) ==
    [c \in DOMAIN r |-> IF c = PayloadColumn(t) THEN r[c] ELSE Str(r[c])]

\* a key made of the first key column only
KeyTuple_First(row, key_columns) ==
    [i \in 1..1 |-> row[key_columns[i]]]

\* tuple(str(row[col]) for col in key_columns): the values of a csv row are
\* strings already, which str leaves as they are
KeyTuple(row, key_columns) ==
    [i \in 1..Len(key_columns) |-> row[key_columns[i]]]

\* the same for a record of the sink's JSON answer, whose keys are numbers
JsonKeyTuple(record, key_columns) ==
    [i \in 1..Len(key_columns) |-> Str(record[key_columns[i]])]

\* --------------------------------------------------------------- black boxes
\* results a query of table t can return: at most MaxRows rows, no two with
\* the same key (each query groups by, or selects on, its key)
QueryResults(t) ==
    LET R == Records(t, "new")
        kc == QUERIES(t).key_columns
    IN {s \in UNION {[1..n -> R] : n \in 0..MaxRows} :
          \A i, j \in DOMAIN s : i # j => KeyTuple(s[i], kc) # KeyTuple(s[j], kc)}

\* what the sink can hold for table t before the table's sync: any records,
\* written by an earlier run ("old" payload)
StoredSets(t) == SUBSET Records(t, "old")

\* the sink's record for a posted JSON row: key columns coerced to integers
SinkRecord(t, row) ==
    [c \in DOMAIN row |-> IF c = PayloadColumn(t) THEN row[c] ELSE ParseInt(row[c])]

SameOn(r1, r2, cols) == \A i \in 1..Len(cols) : r1[cols[i]] = r2[cols[i]]

\* POST with Prefer: resolution=merge-duplicates and on_conflict=cols, answered 2xx
SinkUpsert(t, held, cols, data) ==
    LET new == {SinkRecord(t, data[i]) : i \in 1..Len(data)}
    IN {r \in held : cols = <<>> \/ \A n \in new : ~SameOn(r, n, cols)} \cup new

\* the same request against the table kept as a bag of rows, which tells rows
\* with equal columns apart: each posted row replaces the rows that agree with
\* it on cols, and is plainly inserted when the request names no on_conflict
\* (line 276: "Insert only")
RECURSIVE SinkUpsertRows(_, _, _, _)
SinkUpsertRows(t, held, cols, data) ==
    IF data = <<>> THEN held
    ELSE LET n == SinkRecord(t, Head(data))
             kept == {r \in DOMAIN held : cols = <<>> \/ ~SameOn(r, n, cols)}
         IN SinkUpsertRows(t, [r \in kept |-> held[r]] (+) SetToBag({n}), cols, Tail(data))

\* GET ?select=cols answered 200 (the "2xx" of a read): the stored records cut
\* down to cols
SinkSelect(held, cols) ==
    {[c \in SeqToSet(cols) |-> r[c]] : r \in held}

\* DELETE ?c1=eq.v1&c2=eq.v2... answered 2xx: conditions are joined by AND
SinkDelete(held, conditions) ==
    {r \in held :
       ~(\A i \in 1..Len(conditions) :
            r[conditions[i][1]] = ParseInt(conditions[i][2]))}

Statuses == {"2xx", "4xx", "5xx", "exception"}

\* ----------------------------------------------------------------------- state
VARIABLES
    env,            \* which of the three environment variables are set
    queries,        \* queries[t]: the entry of table t in QUERIES
    stored,         \* records the sink holds in the resource of the current table
    pc,             \* position of the script
    ti,             \* index in TableNames of the table of run_all_syncs' loop, 0 before it
    openConns,      \* source connections opened and not closed
    files,          \* tables whose temporary export file exists
    csv,            \* rows of the export file of the current table
    pos,            \* rows the DictReader has yielded
    data_batch,     \* upload_csv_to_supabase: rows waiting to be sent
    current_keys,   \* upload_csv_to_supabase: key tuples read so far
    total_count,    \* upload_csv_to_supabase: rows sent successfully
    keys_to_delete, \* delete_orphaned_records: orphans not yet visited
    deleted_count,  \* delete_orphaned_records: deletes answered 2xx
    exitCode,       \* exit status of the process, -1 while it runs
    tstate,         \* tstate[t]: how far table t got
    attempts,       \* tables the loop has started, in order
    srcRows,        \* the query result of the current table
    stored0,        \* what the sink held for the current table before its sync
    extracted,      \* whether extract_db_to_csv returned a path for the current table
    sent,           \* upserts posted for the current table: <<rows, status>>
    reads,          \* statuses of the key-listing reads of the current table
    dels            \* deletes issued for the current table: {<<conditions, status>>}

vars == <<env, queries, stored, pc, ti, openConns, files, csv, pos, data_batch, current_keys,
          total_count, keys_to_delete, deleted_count, exitCode, tstate, attempts,
          srcRows, stored0, extracted, sent, reads, dels>>

uploadVars == <<csv, pos, data_batch, current_keys, total_count>>

deleteVars == <<keys_to_delete, deleted_count>>

logVars == <<srcRows, stored0, extracted, sent, reads, dels>>

Cur == TableNames[ti]

\* everything but the configuration, before the first statement of __main__
InitRun ==
    /\ env \in [{"SUPABASE_URL", "SUPABASE_KEY", "DB_PASSWORD"} -> BOOLEAN]
    /\ stored = {}
    /\ pc = "main"
    /\ ti = 0
    /\ openConns = 0
    /\ files = {}
    /\ csv = <<>>
    /\ pos = 0
    /\ data_batch = <<>>
    /\ current_keys = {}
    /\ total_count = 0
    /\ keys_to_delete = {}
    /\ deleted_count = 0
    /\ exitCode = -1
    /\ tstate = [t \in SeqToSet(TableNames) |-> "Pending"]
    /\ attempts = <<>>
    /\ srcRows = <<>>
    /\ stored0 = {}
    /\ extracted = FALSE
    /\ sent = <<>>
    /\ reads = <<>>
    /\ dels = {}

Init ==
    /\ queries = [t \in SeqToSet(TableNames) |-> QUERIES(t)]
    /\ InitRun

\* ------------------------------------------------------------------- __main__
\* a guard that forgets the sink key
CredentialsSet_NoKey == env["SUPABASE_URL"] /\ env["DB_PASSWORD"]

CredentialsSet == env["SUPABASE_URL"] /\ env["SUPABASE_KEY"] /\ env["DB_PASSWORD"]

\* if not (SUPABASE_URL and SUPABASE_KEY and DB_PASSWORD): print ... else: run_all_syncs()
Main ==
    /\ pc = "main"
    /\ IF CredentialsSet
         THEN pc' = "loop" /\ exitCode' = exitCode
         ELSE pc' = "exited" /\ exitCode' = 0
    /\ UNCHANGED <<env, queries, stored, ti, openConns, files, uploadVars, deleteVars, tstate,
                   attempts, logVars>>

\* ------------------------------------------------------------- run_all_syncs
\* an exit status that reports a failed table
ExitStatus_Reports(states) ==
    IF \E t \in DOMAIN states : states[t] = "Failed" THEN 1 ELSE 0

\* exit status once run_all_syncs has returned: the script ends without sys.exit
ExitStatus(states) == 0

\* for table_name, config in QUERIES.items(): the next table is taken, or the
\* script ends after the last one.  The requests of the next table go to
\* another resource of the sink, which holds any records
NextTable ==
    /\ pc = "loop"
    /\ IF ti < NTables
         THEN /\ ti' = ti + 1
              /\ stored' \in StoredSets(TableNames[ti'])
              /\ pc' = "connect"
              /\ tstate' = [tstate EXCEPT ![TableNames[ti']] = "Extracting"]
              /\ attempts' = Append(attempts, TableNames[ti'])
              /\ stored0' = stored'
              /\ extracted' = FALSE
              /\ srcRows' = <<>> /\ sent' = <<>> /\ reads' = <<>> /\ dels' = {}
              /\ exitCode' = exitCode
         ELSE /\ pc' = "exited"
              /\ exitCode' = ExitStatus(tstate)
              /\ UNCHANGED <<stored, ti, tstate, attempts, logVars>>
    /\ UNCHANGED <<env, queries, openConns, files, uploadVars, deleteVars>>

\* a loop that a failed table ends
TableOver_Stops(outcome) ==
    /\ pc' = IF outcome = "Failed" THEN "exited" ELSE "loop"
    /\ tstate' = [tstate EXCEPT ![Cur] = outcome]
    /\ UNCHANGED <<ti, stored>>
    /\ csv' = <<>> /\ pos' = 0 /\ data_batch' = <<>> /\ current_keys' = {}
    /\ total_count' = 0 /\ keys_to_delete' = {} /\ deleted_count' = 0

\* the table of the loop is over: filepath was None, or upload_csv_to_supabase
\* returned; control is back at the for statement
TableOver(outcome) ==
    /\ pc' = "loop"
    /\ tstate' = [tstate EXCEPT ![Cur] = outcome]
    /\ UNCHANGED <<ti, stored>>
    \* the locals of the calls that returned are gone
    /\ csv' = <<>> /\ pos' = 0 /\ data_batch' = <<>> /\ current_keys' = {}
    /\ total_count' = 0 /\ keys_to_delete' = {} /\ deleted_count' = 0

\* --------------------------------------------------------- extract_db_to_csv
\* the DB_PASSWORD check, then psycopg2.connect inside the try
Connect ==
    /\ pc = "connect"
    /\ IF ~env["DB_PASSWORD"]
         THEN \* ValueError leaves run_all_syncs: the script dies with a traceback
              /\ pc' = "exited" /\ exitCode' = 1
              /\ UNCHANGED <<stored, ti, openConns, tstate>>
         ELSE /\ exitCode' = exitCode
              /\ \/ pc' = "query" /\ openConns' = openConns + 1
                    /\ UNCHANGED <<stored, ti, tstate>>
                 \/ \* connect raises: except prints and returns None
                    TableOver("Failed") /\ openConns' = openConns
    /\ IF pc' = "loop" THEN TRUE ELSE UNCHANGED <<uploadVars, deleteVars>>
    /\ UNCHANGED <<env, queries, files, attempts, logVars>>

\* an extraction whose failure hands an export without rows to the upload
Query_FailureIsEmpty ==
    /\ pc = "query"
    /\ \/ \E rows \in QueryResults(Cur) :
            /\ srcRows' = rows
            /\ extracted' = TRUE
            /\ csv' = [i \in 1..Len(rows) |-> CsvRow(Cur, rows[i])]
            /\ openConns' = openConns - 1
       \/ /\ csv' = <<>>
          /\ openConns' \in {openConns, openConns - 1}
          /\ UNCHANGED <<srcRows, extracted>>
    /\ files' = files \cup {Cur}
    /\ pc' = "upload"
    /\ tstate' = [tstate EXCEPT ![Cur] = "Delivering"]
    /\ UNCHANGED <<stored, ti, pos, data_batch, current_keys, total_count, deleteVars>>
    /\ UNCHANGED <<env, queries, exitCode, attempts, stored0, sent, reads, dels>>

\* cursor.execute, the file written, cursor and connection closed, the path
\* returned; or an exception on the way, which skips both close() calls: the
\* connection stays open until the interpreter finalises the object, which may
\* be at the return or later.  The exception is drawn at the database calls
\* (lines 108-113), before the file is opened.
Query ==
    /\ pc = "query"
    /\ \/ \E rows \in QueryResults(Cur) :
            /\ srcRows' = rows
            /\ extracted' = TRUE
            /\ csv' = [i \in 1..Len(rows) |-> CsvRow(Cur, rows[i])]
            /\ files' = files \cup {Cur}
            /\ openConns' = openConns - 1
            /\ pc' = "upload"
            /\ tstate' = [tstate EXCEPT ![Cur] = "Delivering"]
            /\ UNCHANGED <<stored, ti, pos, data_batch, current_keys, total_count,
                           deleteVars>>
       \/ /\ TableOver("Failed")
          /\ openConns' \in {openConns, openConns - 1}
          /\ files' = files
          /\ UNCHANGED <<srcRows, extracted>>
    /\ UNCHANGED <<env, queries, exitCode, attempts, stored0, sent, reads, dels>>

\* ---------------------------------------------------- upload_csv_to_supabase
\* lines 212-225: the file exists; current_keys, data_batch, total_count start
UploadStart ==
    /\ pc = "upload"
    /\ IF Cur \in files
         THEN /\ pc' = "read" /\ pos' = 0 /\ data_batch' = <<>>
              /\ current_keys' = {} /\ total_count' = 0
              /\ UNCHANGED <<stored, ti, tstate, csv, deleteVars>>
         ELSE TableOver("Failed")
    /\ UNCHANGED <<env, queries, openConns, files, exitCode, attempts, logVars>>

\* a request that never names the conflict columns
PostParams_None(on_conflict_col) == <<>>

\* lines 139-141: on_conflict is passed when the table defines it; the empty
\* list stands for a request without the parameter
PostParams(on_conflict_col) == on_conflict_col

\* key tracking and reconciliation whenever the table has key columns
TracksKeys_KeysOnly(config) == config.key_columns # <<>>

\* line 231, line 254: delete_orphans set and key_columns not empty
TracksKeys(config) == config.delete_orphans /\ config.key_columns # <<>>

\* a row loop that sends only once the batch is over the batch size
ReadRow_Greater ==
    /\ pc = "read"
    /\ pos < Len(csv)
    /\ LET row == csv[pos + 1]
           config == queries[Cur]
       IN /\ pos' = pos + 1
          /\ data_batch' = Append(data_batch, row)
          /\ current_keys' = IF TracksKeys(config)
                               THEN current_keys \cup {KeyTuple(row, config.key_columns)}
                               ELSE current_keys
          /\ pc' = IF Len(data_batch') > BATCH_SIZE THEN "send" ELSE "read"
    /\ UNCHANGED <<env, queries, stored, ti, openConns, files, csv, total_count, deleteVars,
                   exitCode, tstate, attempts, logVars>>

\* a row loop that tracks no key for the row that fills a batch
ReadRow_SkipsLastOfBatch ==
    /\ pc = "read"
    /\ pos < Len(csv)
    /\ LET row == csv[pos + 1]
           config == queries[Cur]
       IN /\ pos' = pos + 1
          /\ data_batch' = Append(data_batch, row)
          /\ current_keys' = IF TracksKeys(config) /\ Len(data_batch') < BATCH_SIZE
                               THEN current_keys \cup {KeyTuple(row, config.key_columns)}
                               ELSE current_keys
          /\ pc' = IF Len(data_batch') >= BATCH_SIZE THEN "send" ELSE "read"
    /\ UNCHANGED <<env, queries, stored, ti, openConns, files, csv, total_count, deleteVars,
                   exitCode, tstate, attempts, logVars>>

\* one turn of "for row in reader" up to the test of the batch length
ReadRow ==
    /\ pc = "read"
    /\ pos < Len(csv)
    /\ LET row == csv[pos + 1]
           config == queries[Cur]
       IN /\ pos' = pos + 1
          /\ data_batch' = Append(data_batch, row)
          /\ current_keys' = IF TracksKeys(config)
                               THEN current_keys \cup {KeyTuple(row, config.key_columns)}
                               ELSE current_keys
          /\ pc' = IF Len(data_batch') >= BATCH_SIZE THEN "send" ELSE "read"
    /\ UNCHANGED <<env, queries, stored, ti, openConns, files, csv, total_count, deleteVars,
                   exitCode, tstate, attempts, logVars>>

\* where control goes once the last batch is delivered (line 254)
AfterDelivery ==
    IF TracksKeys(queries[Cur]) THEN "get" ELSE "finally"

\* an upload that skips the orphan deletion when the file held no row
EndOfRows_SkipsEmpty ==
    /\ pc = "read"
    /\ pos = Len(csv)
    /\ pc' = IF data_batch # <<>> THEN "send_final"
             ELSE IF pos = 0 THEN "finally" ELSE AfterDelivery
    /\ tstate' = IF pc' = "get" THEN [tstate EXCEPT ![Cur] = "Reconciling"] ELSE tstate
    /\ UNCHANGED <<env, queries, stored, ti, openConns, files, uploadVars, deleteVars, exitCode,
                   attempts, logVars>>

\* the reader is exhausted: "if data_batch:" and, with nothing left, line 254
EndOfRows ==
    /\ pc = "read"
    /\ pos = Len(csv)
    /\ pc' = IF data_batch # <<>> THEN "send_final" ELSE AfterDelivery
    /\ tstate' = IF pc' = "get" THEN [tstate EXCEPT ![Cur] = "Reconciling"] ELSE tstate
    /\ UNCHANGED <<env, queries, stored, ti, openConns, files, uploadVars, deleteVars, exitCode,
                   attempts, logVars>>

\* a delivery that posts a batch once more after a 5xx answer or a transport
\* failure
SendBatch_Retries ==
    /\ pc \in {"send", "send_final"}
    /\ \E status \in Statuses :
         /\ sent' = Append(sent, <<data_batch, status>>)
         /\ IF status = "2xx"
              THEN /\ stored' = SinkUpsert(Cur, stored, PostParams(queries[Cur].on_conflict), data_batch)
                   /\ total_count' = total_count + Len(data_batch)
                   /\ data_batch' = <<>>
                   /\ pc' = IF pc = "send" THEN "read" ELSE AfterDelivery
                   /\ tstate' = IF pc' = "get"
                                  THEN [tstate EXCEPT ![Cur] = "Reconciling"] ELSE tstate
              ELSE /\ IF /\ status \in {"5xx", "exception"}
                         /\ (sent = <<>> \/ sent[Len(sent)][1] # data_batch)
                        THEN pc' = pc /\ tstate' = tstate
                        ELSE pc' = "finally" /\ tstate' = [tstate EXCEPT ![Cur] = "Failed"]
                   /\ UNCHANGED <<stored, total_count, data_batch>>
    /\ UNCHANGED <<env, queries, ti, openConns, files, csv, pos, current_keys, deleteVars,
                   exitCode, attempts, srcRows, stored0, extracted, reads, dels>>

\* a delivery that drops a refused batch and goes on with the next rows
SendBatch_GoesOn ==
    /\ pc \in {"send", "send_final"}
    /\ \E status \in Statuses :
         /\ sent' = Append(sent, <<data_batch, status>>)
         /\ stored' = IF status = "2xx"
                        THEN SinkUpsert(Cur, stored, PostParams(queries[Cur].on_conflict), data_batch)
                        ELSE stored
         /\ total_count' = IF status = "2xx" THEN total_count + Len(data_batch)
                                             ELSE total_count
         /\ data_batch' = <<>>
         /\ pc' = IF pc = "send" THEN "read" ELSE AfterDelivery
         /\ tstate' = IF pc' = "get"
                        THEN [tstate EXCEPT ![Cur] = "Reconciling"] ELSE tstate
    /\ UNCHANGED <<env, queries, ti, openConns, files, csv, pos, current_keys, deleteVars,
                   exitCode, attempts, srcRows, stored0, extracted, reads, dels>>

\* _send_batch(data_batch, ...) at line 236 or 246 and what follows its answer
SendBatch ==
    /\ pc \in {"send", "send_final"}
    /\ \E status \in Statuses :
         /\ sent' = Append(sent, <<data_batch, status>>)
         /\ IF status = "2xx"
              THEN /\ stored' = SinkUpsert(Cur, stored, PostParams(queries[Cur].on_conflict), data_batch)
                   /\ total_count' = total_count + Len(data_batch)
                   /\ data_batch' = <<>>
                   /\ pc' = IF pc = "send" THEN "read" ELSE AfterDelivery
                   /\ tstate' = IF pc' = "get"
                                  THEN [tstate EXCEPT ![Cur] = "Reconciling"] ELSE tstate
              ELSE \* False returned (4xx, 5xx) or the exception caught at line 257
                   /\ pc' = "finally"
                   /\ tstate' = [tstate EXCEPT ![Cur] = "Failed"]
                   /\ UNCHANGED <<stored, total_count, data_batch>>
    /\ UNCHANGED <<env, queries, ti, openConns, files, csv, pos, current_keys, deleteVars,
                   exitCode, attempts, srcRows, stored0, extracted, reads, dels>>

\* --------------------------------------------------- delete_orphaned_records
\* a delete that filters on the first key column only
DeleteConditions_FirstColumn(key_columns, key_tuple) ==
    [i \in 1..1 |-> <<key_columns[i], key_tuple[i]>>]

\* conditions of one delete: col=eq.value for every key column
DeleteConditions(key_columns, key_tuple) ==
    [i \in 1..Len(key_columns) |-> <<key_columns[i], key_tuple[i]>>]

\* a reconciler that takes the orphans from any answer of the key-listing read
GetKeys_IgnoresStatus ==
    /\ pc = "get"
    /\ \E status \in Statuses :
         /\ reads' = Append(reads, status)
         /\ IF status # "exception"
              THEN LET key_columns == queries[Cur].key_columns
                       existing_records == SinkSelect(stored, key_columns)
                       existing_keys == {JsonKeyTuple(r, key_columns) : r \in existing_records}
                   IN /\ keys_to_delete' = existing_keys \ current_keys
                      /\ pc' = IF keys_to_delete' = {} THEN "finally" ELSE "delete"
              ELSE pc' = "finally" /\ keys_to_delete' = keys_to_delete
    /\ deleted_count' = 0
    /\ UNCHANGED <<env, queries, stored, ti, openConns, files, uploadVars, exitCode, tstate,
                   attempts, srcRows, stored0, extracted, sent, dels>>

\* lines 162-187: the key-listing read and the orphans computed from it
GetKeys ==
    /\ pc = "get"
    /\ \E status \in Statuses :
         /\ reads' = Append(reads, status)
         /\ IF status = "2xx"
              THEN LET key_columns == queries[Cur].key_columns
                       existing_records == SinkSelect(stored, key_columns)
                       existing_keys == {JsonKeyTuple(r, key_columns) : r \in existing_records}
                   IN /\ keys_to_delete' = existing_keys \ current_keys
                      /\ pc' = IF keys_to_delete' = {} THEN "finally" ELSE "delete"
              ELSE pc' = "finally" /\ keys_to_delete' = keys_to_delete
    /\ deleted_count' = 0
    /\ UNCHANGED <<env, queries, stored, ti, openConns, files, uploadVars, exitCode, tstate,
                   attempts, srcRows, stored0, extracted, sent, dels>>

\* one turn of "for key_tuple in keys_to_delete" (a set: any order)
DeleteOne ==
    /\ pc = "delete"
    /\ \E key_tuple \in keys_to_delete, status \in Statuses :
         LET conditions == DeleteConditions(queries[Cur].key_columns, key_tuple)
         IN /\ dels' = dels \cup {<<conditions, status>>}
            /\ keys_to_delete' = keys_to_delete \ {key_tuple}
            /\ stored' = IF status = "2xx" THEN SinkDelete(stored, conditions) ELSE stored
            /\ deleted_count' = IF status = "2xx" THEN deleted_count + 1 ELSE deleted_count
            /\ pc' = IF status = "exception" \/ keys_to_delete' = {}
                       THEN "finally" ELSE "delete"
    /\ UNCHANGED <<env, queries, ti, openConns, files, uploadVars, exitCode, tstate, attempts,
                   srcRows, stored0, extracted, sent, reads>>

\* an upload that removes the export only when no batch failed
Finally_KeepsFile ==
    /\ pc = "finally"
    /\ files' = IF tstate[Cur] = "Failed" THEN files ELSE files \ {Cur}
    /\ TableOver(IF tstate[Cur] = "Failed" THEN "Failed" ELSE "Done")
    /\ UNCHANGED <<env, queries, openConns, exitCode, attempts, logVars>>

\* an upload whose return forgets that a batch failed
Finally_AlwaysDone ==
    /\ pc = "finally"
    /\ files' = files \ {Cur}
    /\ TableOver("Done")
    /\ UNCHANGED <<env, queries, openConns, exitCode, attempts, logVars>>

\* finally: the export file is removed; upload_csv_to_supabase returns
Finally ==
    /\ pc = "finally"
    /\ files' = files \ {Cur}
    /\ TableOver(IF tstate[Cur] = "Failed" THEN "Failed" ELSE "Done")
    /\ UNCHANGED <<env, queries, openConns, exitCode, attempts, logVars>>

Next ==
    \/ Main
    \/ NextTable
    \/ Connect
    \/ Query
    \/ UploadStart
    \/ ReadRow
    \/ EndOfRows
    \/ SendBatch
    \/ GetKeys
    \/ DeleteOne
    \/ Finally

Spec == Init /\ [][Next]_vars

\* the script is one thread of synchronous calls: as long as every call
\* returns, the statement that is next is executed
FairSpec == Spec /\ WF_vars(Next)

\* the script run with any setting of the delete_orphans flags of QUERIES
QueriesAnyFlags ==
    {[t \in SeqToSet(TableNames) |-> [QUERIES(t) EXCEPT !.delete_orphans = flag[t]]] :
        flag \in [SeqToSet(TableNames) -> BOOLEAN]}

InitAnyConfig ==
    /\ queries \in QueriesAnyFlags
    /\ InitRun

SpecAnyConfig == InitAnyConfig /\ [][Next]_vars

\* ------------------------------------------------- _send_batch, called again
\* _send_batch applied to one batch of a table several times, against a sink
\* table that starts empty and is kept as a bag of rows; QUERIES as in the
\* source, or without on_conflict
QueriesAnyConflict ==
    {[t \in SeqToSet(TableNames) |-> QUERIES(t)],
     [t \in SeqToSet(TableNames) |-> [QUERIES(t) EXCEPT !.on_conflict = <<>>]]}

Batches(t) ==
    {[i \in 1..Len(q) |-> CsvRow(t, q[i])] :
        q \in {r \in QueryResults(t) : Len(r) \in 1..BATCH_SIZE}}

InitRedeliver ==
    /\ queries \in QueriesAnyConflict
    /\ env = [v \in {"SUPABASE_URL", "SUPABASE_KEY", "DB_PASSWORD"} |-> TRUE]
    /\ ti \in 1..NTables
    /\ data_batch \in Batches(TableNames[ti])
    /\ stored = EmptyBag
    /\ pc = "send_final"
    /\ openConns = 0
    /\ files = {}
    /\ csv = <<>>
    /\ pos = 0
    /\ current_keys = {}
    /\ total_count = 0
    /\ keys_to_delete = {}
    /\ deleted_count = 0
    /\ exitCode = -1
    /\ tstate = [t \in SeqToSet(TableNames) |-> "Pending"]
    /\ attempts = <<>>
    /\ srcRows = <<>>
    /\ stored0 = {}
    /\ extracted = FALSE
    /\ sent = <<>>
    /\ reads = <<>>
    /\ dels = {}

\* one call _send_batch(data_batch, table_name, on_conflict_col)
Redeliver ==
    /\ pc = "send_final"
    /\ Len(sent) < MaxPosts
    /\ \E status \in Statuses :
         /\ sent' = Append(sent, <<data_batch, status>>)
         /\ stored' = IF status = "2xx"
                        THEN SinkUpsertRows(Cur, stored,
                                            PostParams(queries[Cur].on_conflict), data_batch)
                        ELSE stored
    /\ UNCHANGED <<env, queries, pc, ti, openConns, files, csv, pos, data_batch,
                   current_keys, total_count, deleteVars, exitCode, tstate, attempts,
                   srcRows, stored0, extracted, reads, dels>>

SpecRedeliver == InitRedeliver /\ [][Redeliver]_vars

\* ------------------------------------------------------------ what is claimed
Started == ti >= 1

\* the table's sync is over: control is back in run_all_syncs
TableEnded == Started /\ pc \in {"loop", "exited"}

KeyColumns == queries[Cur].key_columns

StoredKeys == {KeyTuple(r, KeyColumns) : r \in stored}

SourceKeys == {KeyTuple(srcRows[i], KeyColumns) : i \in 1..Len(srcRows)}

\* the rows of the export file, as the DictReader yields them
CsvRows == [i \in 1..Len(srcRows) |-> CsvRow(Cur, srcRows[i])]

AllSentAccepted == \A i \in 1..Len(sent) : sent[i][2] = "2xx"

ReconciliationAnswered ==
    /\ reads = <<"2xx">>
    /\ \A d \in dels : d[2] = "2xx"

\* C1 as stated: after a table's run in which extraction and every batch
\* upsert succeeded, the keys stored at the sink are exactly the keys of the
\* query result
C1_SinkMirrorsSource ==
    (TableEnded /\ tstate[Cur] = "Done" /\ queries[Cur].delete_orphans)
        => StoredKeys = SourceKeys

\* C1 amended: after a table's run in which extraction and every batch upsert
\* succeeded, the key-listing read was answered 200 and every delete was
\* answered 2xx, the keys stored at the sink are exactly the keys of the query
\* result, whatever the sink held before
C1_SinkMirrorsSourceWhenReconciled ==
    (TableEnded /\ tstate[Cur] = "Done" /\ queries[Cur].delete_orphans
        /\ ReconciliationAnswered)
        => StoredKeys = SourceKeys

\* a composite-key table ended reconciled: rows were delivered, and orphans
\* the sink held before the run were deleted
C1_Witness ==
    /\ TableEnded /\ Cur = "orders" /\ tstate[Cur] = "Done"
    /\ ReconciliationAnswered
    /\ Len(srcRows) = 2
    /\ Cardinality(dels) = 2
    /\ StoredKeys = SourceKeys

\* the rows of the batches before the last one sent
RowsBeforeLast ==
    UNION {SeqToSet(sent[i][1]) : i \in 1..(Len(sent) - 1)}

\* C2: batches go out one at a time in the order of the rows; a batch is sent
\* only while every batch before it was accepted, so nothing follows a failed
\* batch; and when the table ends on a failed batch the rows of the batches
\* before it are stored at the sink
C2_StopsAtFirstFailure ==
    Started =>
        /\ \A i \in 1..Len(sent) :
             /\ i < Len(sent) => sent[i][2] = "2xx"
             /\ \A k \in 1..Len(sent[i][1]) :
                  (i - 1) * BATCH_SIZE + k <= Len(srcRows)
                  /\ sent[i][1][k] = CsvRows[(i - 1) * BATCH_SIZE + k]
        /\ (sent # <<>> /\ sent[Len(sent)][2] # "2xx") =>
             /\ pc \in {"finally", "loop", "exited"}
             /\ \A row \in RowsBeforeLast : SinkRecord(Cur, row) \in stored

\* the second batch of a table failed; the table is over and the first
\* batch's rows are at the sink
C2_Witness ==
    /\ TableEnded /\ Len(sent) = 2
    /\ sent[1][2] = "2xx" /\ sent[2][2] = "4xx"
    /\ tstate[Cur] = "Failed"
    /\ \A row \in SeqToSet(sent[1][1]) : SinkRecord(Cur, row) \in stored

\* sizes of the batches that deliver n rows
NBatches(n) == (n + BATCH_SIZE - 1) \div BATCH_SIZE

\* C3: a key-listing read or a delete is issued for a table only after every
\* batch of the table was sent and accepted; after a failed batch there is
\* neither
C3_ReconcileAfterDelivery ==
    Started =>
        /\ (reads # <<>> \/ dels # {} \/ pc \in {"get", "delete"}) =>
             /\ AllSentAccepted
             /\ Len(sent) = NBatches(Len(srcRows))
             /\ data_batch = <<>>
        /\ ~AllSentAccepted => (reads = <<>> /\ dels = {})

\* the read was issued after two accepted batches
C3_Witness ==
    /\ Started /\ reads # <<>> /\ Len(sent) = 2 /\ AllSentAccepted

LastSent == sent[Len(sent)]

Unavailable == {"5xx", "exception"}

\* C4 as stated: a batch that fails with a 5xx answer or a transport failure
\* is posted again before the table is given up
C4_UnavailableIsRetried ==
    (Started /\ tstate[Cur] = "Failed" /\ sent # <<>> /\ LastSent[2] \in Unavailable)
        => /\ Len(sent) >= 2
           /\ sent[Len(sent) - 1][1] = LastSent[1]
           /\ sent[Len(sent) - 1][2] \in Unavailable

\* C4 amended: no batch is posted twice, and a batch that fails with a 5xx
\* answer or a transport failure ends the table's delivery at once
C4_UnavailableAbortsAtOnce ==
    Started =>
        /\ \A i, j \in 1..Len(sent) : i # j => sent[i][1] # sent[j][1]
        /\ (sent # <<>> /\ LastSent[2] \in Unavailable) =>
             /\ pc \in {"finally", "loop", "exited"}
             /\ tstate[Cur] = "Failed"

\* the second batch met a 5xx answer, was posted once, and the table failed
C4_Witness ==
    /\ TableEnded /\ Len(sent) = 2 /\ sent[2][2] = "5xx"
    /\ sent[1][1] # sent[2][1]
    /\ tstate[Cur] = "Failed"

\* the conditions that select exactly the record r by its key columns
ExactConditions(r) ==
    [i \in 1..Len(KeyColumns) |-> <<KeyColumns[i], Str(r[KeyColumns[i]])>>]

EmptySourceRun ==
    /\ TableEnded /\ tstate[Cur] = "Done" /\ srcRows = <<>>
    /\ queries[Cur].delete_orphans

\* C5 as stated: with an empty query result no upsert is sent, the reconciler
\* runs, a delete is issued for each record the sink held, and the sink's
\* table ends empty
C5_EmptySourceEmptiesSink ==
    EmptySourceRun =>
        /\ sent = <<>>
        /\ Len(reads) = 1
        /\ {d[1] : d \in dels} = {ExactConditions(r) : r \in stored0}
        /\ stored = {}

\* C5 amended: with an empty query result no upsert is sent and the reconciler
\* runs with an empty set of delivered keys; when its key-listing read is
\* answered 200 and every delete is answered 2xx, a delete is issued for each
\* record the sink held and the sink's table ends empty
C5_EmptySourceEmptiesSinkWhenAnswered ==
    /\ (Started /\ pc = "get" /\ srcRows = <<>>) => current_keys = {}
    /\ EmptySourceRun =>
         /\ sent = <<>>
         /\ Len(reads) = 1
         /\ ReconciliationAnswered =>
               /\ {d[1] : d \in dels} = {ExactConditions(r) : r \in stored0}
               /\ stored = {}

\* an empty query result against a sink table of two records, both deleted
C5_Witness ==
    /\ EmptySourceRun
    /\ Cardinality(stored0) = 2
    /\ Cardinality(dels) = 2
    /\ ReconciliationAnswered
    /\ stored = {}

Min(a, b) == IF a <= b THEN a ELSE b

\* the i-th chunk of BATCH_SIZE rows of the export file
Chunk(i) ==
    SubSeq(CsvRows, (i - 1) * BATCH_SIZE + 1, Min(i * BATCH_SIZE, Len(srcRows)))

\* C6: the i-th batch sent is the i-th chunk of BATCH_SIZE rows of the
\* extracted sequence, so the batches sent, in order, spell the sequence
\* without loss or duplication; every batch but the last has BATCH_SIZE rows,
\* the last has 1..BATCH_SIZE, and once delivery is complete all chunks were
\* sent
C6_BatchesAreChunks ==
    Started =>
        /\ Len(sent) <= NBatches(Len(srcRows))
        /\ \A i \in 1..Len(sent) :
             /\ sent[i][1] = Chunk(i)
             /\ Len(sent[i][1]) >= 1 /\ Len(sent[i][1]) <= BATCH_SIZE
             /\ i < NBatches(Len(srcRows)) => Len(sent[i][1]) = BATCH_SIZE
        /\ tstate[Cur] \in {"Reconciling", "Done"} => Len(sent) = NBatches(Len(srcRows))

\* three rows went out as a batch of two and a batch of one
C6_Witness ==
    /\ Started /\ Len(srcRows) = 3 /\ Len(sent) = 2
    /\ Len(sent[1][1]) = 2 /\ Len(sent[2][1]) = 1
    /\ AllSentAccepted
    /\ sent[1][1] \o sent[2][1] = CsvRows

\* C7: every delete request names each key column once with an equality, and
\* a record that leaves the sink in a delete step agrees with the request on
\* all of them
C7_DeleteMatchesWholeKey ==
    [][pc = "delete" =>
         \A d \in dels' \ dels :
            /\ Len(d[1]) = Len(KeyColumns)
            /\ \A i \in 1..Len(KeyColumns) : d[1][i][1] = KeyColumns[i]
            /\ \A r \in stored \ stored' : d[1] = ExactConditions(r)]_vars

\* an orphan of orders was deleted and a record with the same user_id and
\* another order_id is still stored
C7_Witness ==
    /\ Started /\ Cur = "orders"
    /\ \E d \in dels :
         /\ d[2] = "2xx"
         /\ \E r \in stored :
              /\ Str(r["user_id"]) = d[1][1][2]
              /\ Str(r["order_id"]) # d[1][2][2]

AnyCredentialMissing == \E v \in DOMAIN env : ~env[v]

\* C8: the tables are started in declaration order, and a run that starts
\* ends only after every table was started and came to Done or Failed
C8_EveryTableAttempted ==
    /\ attempts = SubSeq(TableNames, 1, ti)
    /\ (pc = "exited" /\ ~AnyCredentialMissing) =>
         /\ attempts = TableNames
         /\ \A t \in SeqToSet(TableNames) : tstate[t] \in {"Done", "Failed"}

\* the first two tables failed and the third was still synchronised
C8_Witness ==
    /\ pc = "exited"
    /\ tstate["users"] = "Failed" /\ tstate["coupons"] = "Failed"
    /\ tstate["orders"] = "Done"
    /\ attempts = TableNames

\* C9 as stated: the exit status is non-zero if a table failed and zero only
\* when every table reached Done
C9_ExitReflectsFailure ==
    (pc = "exited" /\ ~AnyCredentialMissing) =>
        (exitCode = 0 <=> \A t \in SeqToSet(TableNames) : tstate[t] = "Done")

\* C9 amended: the run exits with status zero whatever the tables' outcomes
C9_ExitsZero ==
    /\ pc = "exited" => exitCode = 0
    /\ pc # "exited" => exitCode = -1

\* the run ended with status zero after a table failed
C9_Witness ==
    /\ pc = "exited" /\ exitCode = 0
    /\ \E t \in SeqToSet(TableNames) : tstate[t] = "Failed"

\* C10: with a credential missing no table starts: no connection, no file,
\* no request
C10_NoCredentialsNoRun ==
    AnyCredentialMissing =>
        /\ pc \in {"main", "exited"}
        /\ ti = 0 /\ attempts = <<>>
        /\ \A t \in SeqToSet(TableNames) : tstate[t] = "Pending"
        /\ openConns = 0 /\ files = {}
        /\ sent = <<>> /\ reads = <<>> /\ dels = {}

\* the run ended on the credentials check
C10_Witness ==
    /\ AnyCredentialMissing /\ pc = "exited"
    /\ ~env["SUPABASE_KEY"] /\ env["SUPABASE_URL"] /\ env["DB_PASSWORD"]

\* the delete loop is over: delete_orphaned_records has returned after a
\* key-listing read answered 200
DeleteLoopOver == Started /\ pc = "finally" /\ reads = <<"2xx">>

\* C11: a delete is attempted for every orphan key, whatever the outcome of
\* the deletes before it: when the delete loop is over no orphan key is left
\* without a request
C11_EveryOrphanAttempted ==
    DeleteLoopOver => keys_to_delete = {}

\* a record the sink held before the run whose key is not in the query result
Stale(r) == \A i \in 1..Len(srcRows) : ~SameOn(r, srcRows[i], KeyColumns)

\* C12: for a table whose delete_orphans is false the reconciler is skipped:
\* no key-listing read and no delete is issued, the table is never in
\* reconciliation, and every stale record the sink held is still stored
C12_NoReconcileWhenDisabled ==
    (Started /\ ~queries[Cur].delete_orphans) =>
        /\ reads = <<>> /\ dels = {}
        /\ pc \notin {"get", "delete"}
        /\ tstate[Cur] # "Reconciling"
        /\ \A r \in stored0 : Stale(r) => r \in stored

\* a table with delete_orphans false ended Done after two batches, and the
\* sink still holds a stale record next to the delivered ones
C12_Witness ==
    /\ TableEnded /\ ~queries[Cur].delete_orphans /\ tstate[Cur] = "Done"
    /\ Len(sent) = 2
    /\ \E r \in stored0 : Stale(r) /\ r \in stored

\* the posts of the batch that were answered 2xx
Accepted == {i \in 1..Len(sent) : sent[i][2] = "2xx"}

\* C13: with on_conflict defined, once the batch was accepted the sink holds
\* exactly one row per row of the batch, however many times the batch was
\* accepted: the same rows after two deliveries as after one, no key twice
C13_RedeliveryIsIdempotent ==
    (queries[Cur].on_conflict # <<>> /\ Accepted # {}) =>
        /\ BagToSet(stored) = {SinkRecord(Cur, data_batch[i]) : i \in 1..Len(data_batch)}
        /\ \A r \in BagToSet(stored) : CopiesIn(r, stored) = 1
        /\ BagCardinality(stored) = Len(data_batch)
        /\ \A r1, r2 \in BagToSet(stored) :
              SameOn(r1, r2, queries[Cur].on_conflict) => r1 = r2

\* a batch of two orders rows was accepted twice
C13_Witness ==
    /\ pc = "send_final" /\ Cur = "orders"
    /\ queries[Cur].on_conflict # <<>>
    /\ Len(data_batch) = 2
    /\ Cardinality(Accepted) = 2

\* the rows of the batches answered 2xx, and their keys as the upload tracks
\* them
DeliveredRows == UNION {SeqToSet(sent[i][1]) : i \in Accepted}

DeliveredKeys == {KeyTuple(row, KeyColumns) : row \in DeliveredRows}

\* C14 as stated: at every point of the delivery the set of tracked keys
\* holds only keys of rows whose batch was accepted
C14_KeysOnlyOfDelivered ==
    (Started /\ pc \in {"read", "send", "send_final", "get", "delete", "finally"})
        => current_keys \subseteq DeliveredKeys

\* C14 amended: during the delivery the tracked keys are the keys of the rows
\* read so far, those of the batch not yet sent included; when the reconciler
\* starts they are exactly the keys of the rows whose batch was accepted
C14_KeysOfRowsRead ==
    (Started /\ pc \in {"read", "send", "send_final", "get", "delete", "finally"}) =>
        /\ current_keys = {KeyTuple(csv[i], KeyColumns) : i \in 1..pos}
        /\ current_keys \subseteq
              DeliveredKeys \cup {KeyTuple(data_batch[i], KeyColumns) : i \in 1..Len(data_batch)}
        /\ pc \in {"get", "delete"} =>
              /\ AllSentAccepted
              /\ current_keys = DeliveredKeys
              /\ current_keys = {KeyTuple(csv[i], KeyColumns) : i \in 1..Len(csv)}

\* a batch is about to be posted whose keys are tracked already, after an
\* earlier batch was accepted
C14_Witness ==
    /\ Started /\ pc = "send_final"
    /\ Len(sent) = 1 /\ AllSentAccepted
    /\ Cardinality(current_keys) = 3
    /\ Cardinality(DeliveredKeys) = 2

\* C15: while a table's extraction has not succeeded, and after it failed,
\* nothing is asked of the sink (no upsert, no key-listing read, no delete),
\* the sink holds what it held, the upload is not entered, and the table
\* ends Failed
C15_FailedExtractionLeavesSink ==
    (Started /\ ~extracted) =>
        /\ sent = <<>> /\ reads = <<>> /\ dels = {}
        /\ stored = stored0
        /\ pc \in {"connect", "query", "loop", "exited"}
        /\ tstate[Cur] \in {"Extracting", "Failed"}
        /\ TableEnded => tstate[Cur] = "Failed"

\* the query of a table failed while the sink held two records of it
C15_Witness ==
    /\ TableEnded /\ ~extracted
    /\ attempts[Len(attempts)] = Cur
    /\ openConns > 0
    /\ Cardinality(stored) = 2

\* C16: outside extract_db_to_csv no source connection is open: every exit
\* of the extraction, the failed ones included, has released its connection
C16_ConnectionReleased ==
    pc \notin {"query"} => openConns = 0

\* the steps of a table's state the claim allows
TableSteps ==
    {<<"Pending", "Extracting">>, <<"Extracting", "Delivering">>,
     <<"Delivering", "Reconciling">>, <<"Reconciling", "Done">>,
     <<"Extracting", "Failed">>, <<"Delivering", "Failed">>}

AllTablesOver == \A t \in SeqToSet(TableNames) : tstate[t] \in {"Done", "Failed"}

\* C17: a table's state moves only along Pending, Extracting, Delivering,
\* Reconciling, Done, or from Extracting or Delivering to Failed, and never
\* leaves Done or Failed; the run terminates, and in a run that starts every
\* table eventually is Done or Failed
C17_TableStateMachine ==
    /\ [][\A t \in SeqToSet(TableNames) :
            tstate'[t] # tstate[t] => <<tstate[t], tstate'[t]>> \in TableSteps]_vars
    /\ <>(pc = "exited")
    /\ ~AnyCredentialMissing => <>[](pc = "exited" /\ AllTablesOver)

\* the run ended with one table reconciled, one failed in extraction or
\* delivery and the last failed in delivery
C17_Witness ==
    /\ pc = "exited" /\ AllTablesOver
    /\ tstate["users"] = "Done"
    /\ tstate["coupons"] = "Failed"
    /\ tstate["orders"] = "Failed" /\ extracted
    /\ Len(sent) = 2 /\ sent[2][2] = "4xx"

\* the conditions that select the sink's record of a csv row
RowConditions(row) ==
    [i \in 1..Len(queries[Cur].key_columns) |->
        <<queries[Cur].key_columns[i], row[queries[Cur].key_columns[i]]>>]

\* C18: no delete request, answered or not, names the key of a row delivered
\* in this run, and every row of an accepted batch is stored at the sink from
\* its delivery to the end of the table's sync
C18_DeliveredRowsSurvive ==
    Started =>
        /\ \A d \in dels : \A row \in DeliveredRows : d[1] # RowConditions(row)
        /\ \A row \in DeliveredRows : SinkRecord(Cur, row) \in stored

\* the sync of orders ended after two rows were delivered and, of two
\* orphans, one delete was answered 2xx and one failed
C18_Witness ==
    /\ TableEnded /\ Cur = "orders"
    /\ Cardinality(DeliveredRows) = 2
    /\ \E d1, d2 \in dels : d1[2] = "2xx" /\ d2[2] = "5xx"
    /\ Cardinality(stored) = 3

\* what the sink holds once the batches are delivered: the records it held
\* before, but for those a delivered row replaced, and the delivered rows
StoredAfterDelivery ==
    {r \in stored0 : \A row \in DeliveredRows : ExactConditions(r) # RowConditions(row)}
        \cup {SinkRecord(Cur, row) : row \in DeliveredRows}

KeyListingFailed == Started /\ reads # <<>> /\ reads[1] # "2xx"

\* C19: once the key-listing read of a table has failed (a status other than
\* 200 or an exception) no delete is issued for the table and the sink holds
\* exactly what it held after the delivery
C19_FailedListingDeletesNothing ==
    KeyListingFailed =>
        /\ dels = {}
        /\ pc \in {"finally", "loop", "exited"}
        /\ Len(reads) = 1
        /\ stored = StoredAfterDelivery

\* a table's sync ended after a failed key-listing read, with a delivered row
\* and a record absent from the source both stored
C19_Witness ==
    /\ TableEnded /\ reads = <<"exception">>
    /\ tstate[Cur] = "Done"
    /\ DeliveredRows # {}
    /\ \E r \in stored : Stale(r)

====
